---------------------------- MODULE Spec2Model ----------------------------
(***************************************************************************)
(* A model of the raytracer's BVH builder (src/src/bvh.rs, BvhNode::new,   *)
(* get_split, subdivide), its nearest-hit traversal (closest_shape), the   *)
(* parallel renderer (src/src/lib.rs, Scene::render) behind the checks of  *)
(* config::parse (src/src/config.rs), and the bounding box of              *)
(* src/src/aabb.rs (Aabb::new, contains, union).                           *)
(*                                                                         *)
(* f32 values are modelled as integers.  The inputs are chosen so that     *)
(* every finite value the code computes on them is an integer (or a        *)
(* multiple of 1/16, kept scaled by 16), so the arithmetic is exact;       *)
(* +-INFINITY and NAN are distinguished values with the IEEE-754 rules of  *)
(* the operations the code applies to them.                                *)
(***************************************************************************)
EXTENDS Integers, Sequences, FiniteSets, TLC

VARIABLES
    shapes,       \* the shape array handed to BvhNode::new (permuted in place)
    shapes0,      \* history: the array as it was handed over
    nodes,        \* the Vec<BvhNode> under construction / returned
    frames,       \* the call stack of BvhNode::subdivide
    bphase,       \* "new" | "subdividing" | "built"
    ray,          \* the ray of the current closest_shape call
    stack,        \* the caller's scratch stack of closest_shape
    closest_hit,  \* closest_shape's local (distance, shapes_index)
    result,       \* what closest_shape returned
    qphase,       \* "idle" | "traversing" | "done" | "panicked"
    inspected,    \* history: the nodes closest_shape looked into, in order
    pushed_nodes, \* history: the nodes pushed since stack.clear(), in order
    stack_before, \* history: what the scratch stack held when closest_shape was called
    scene,        \* Scene: screen.resolution_width/height/samples_per_pixel, incremental
    num_threads,  \* what available_parallelism() returns
    seed,         \* the random stream: fixes every sample's radiance
    rphase,       \* "config" | "aborted" (config::parse), then Scene::render:
                  \* "start" | "running" | "done" | "panicked" | "divide_by_zero"
    image,        \* Image: data (one u8 channel per pixel), file (bytes after the header)
    locals,       \* render's chunk_size, chunks_len, sample_chunk_size, num_sample_chunks, total_work
    work_counter, \* the AtomicUsize
    chunks,       \* the Mutex of each chunk: 0 when unlocked, else the worker holding it
    workers,      \* each spawned thread: pc, work_index, i
    processed,    \* history: <<chunk_index, sample_iteration>> -> how many times it was finished
    samples_taken,\* history: how many samples were drawn for each pixel
    aabb,         \* an Aabb<3, f32>: min, max
    aabb_old,     \* history: the box before the last union call
    united,       \* history: the argument of the last union call
    max_bounces,  \* Screen::max_bounces
    current_ray,  \* ray_color: the y component of current_ray.direction
    current_color,\* ray_color: None or Some(colour), a colour being <<num, den>>
    bounce,       \* ray_color: the rounds of `for _ in 0..max_bounces` begun
    cphase,       \* "idle" | "loop" | "broke" | "returned"
    outcomes,     \* history: the outcome of each round, in order
    color         \* the colour ray_color returned

bvhVars == <<shapes, shapes0, nodes, frames, bphase, ray, stack, closest_hit,
             result, qphase, inspected, pushed_nodes,
             stack_before>>

renderVars == <<scene, num_threads, seed, rphase, image, locals, work_counter,
                chunks, workers, processed, samples_taken>>

aabbVars == <<aabb, aabb_old, united>>

rayVars == <<max_bounces, current_ray, current_color, bounce, cphase, outcomes, color>>

vars == <<bvhVars, renderVars, aabbVars, rayVars>>

(***************************************************************************)
(* Bounds of the model.                                                    *)
(***************************************************************************)
MaxShapes == 9
MaxPixels == 6
MaxThreads == 2
MaxSamples == 2
MaxSeed == 1

(***************************************************************************)
(* f32                                                                     *)
(***************************************************************************)
INFINITY == 100000000
NEG_INFINITY == -INFINITY
NAN == 2 * INFINITY

IsNaN(a) == a = NAN
IsInf(a) == a = INFINITY \/ a = NEG_INFINITY
is_finite(a) == ~IsNaN(a) /\ ~IsInf(a)

FNeg(a) == IF IsNaN(a) THEN NAN ELSE -a

FAdd(a, b) ==
    IF IsNaN(a) \/ IsNaN(b) THEN NAN
    ELSE IF IsInf(a) THEN (IF IsInf(b) /\ b # a THEN NAN ELSE a)
    ELSE IF IsInf(b) THEN b
    ELSE a + b

FSub(a, b) == FAdd(a, FNeg(b))

Sign(a) == IF a > 0 THEN 1 ELSE IF a < 0 THEN -1 ELSE 0

FMul(a, b) ==
    IF IsNaN(a) \/ IsNaN(b) THEN NAN
    ELSE IF IsInf(a) \/ IsInf(b)
         THEN (IF a = 0 \/ b = 0 THEN NAN ELSE Sign(a) * Sign(b) * INFINITY)
    ELSE a * b

\* a / b for a divisor that is 0, 1 or -1 (a component of an axis-parallel
\* unit direction): x/0 is +-inf, 0/0 is NaN.
FDiv(a, b) ==
    IF IsNaN(a) \/ IsNaN(b) THEN NAN
    ELSE IF b = 0 THEN (IF a = 0 THEN NAN ELSE Sign(a) * INFINITY)
    ELSE IF IsInf(a) THEN Sign(a) * Sign(b) * INFINITY
    ELSE a * b

FLt(a, b) == ~IsNaN(a) /\ ~IsNaN(b) /\ a < b
FLe(a, b) == ~IsNaN(a) /\ ~IsNaN(b) /\ a <= b
FGe(a, b) == FLe(b, a)
FGt(a, b) == FLt(b, a)

\* f32::min / f32::max: a NaN argument is ignored.
FMin(a, b) == IF IsNaN(a) THEN b ELSE IF IsNaN(b) THEN a ELSE IF a < b THEN a ELSE b
FMax(a, b) == IF IsNaN(a) THEN b ELSE IF IsNaN(b) THEN a ELSE IF a > b THEN a ELSE b

\* f32::sqrt on the values the bounded inputs produce (perfect squares).
Sqrt(a) == CHOOSE k \in 0..a : k * k = a

Axes == 1..3

VMin(p, q) == [a \in Axes |-> FMin(p[a], q[a])]
VMax(p, q) == [a \in Axes |-> FMax(p[a], q[a])]
VSub(p, q) == [a \in Axes |-> FSub(p[a], q[a])]
VAdd(p, q) == [a \in Axes |-> FAdd(p[a], q[a])]
VScale(p, k) == [a \in Axes |-> FMul(p[a], k)]
Dot(p, q) == FAdd(FAdd(FMul(p[1], q[1]), FMul(p[2], q[2])), FMul(p[3], q[3]))

MinOf(S) == CHOOSE m \in S : \A x \in S : m <= x
MaxOf(S) == CHOOSE m \in S : \A x \in S : m >= x

\* Option<T>: None is the empty sequence, Some(x) is <<x>>.
None == << >>
Some(x) == <<x>>

\* Program constants of bvh.rs.
bins_per_axis == 16
TraversalCost == 15
ShapeCost == 2

(***************************************************************************)
(* shapes.rs: Sphere                                                       *)
(***************************************************************************)
Sphere(c, r, m) == [center |-> c, radius |-> r, material_index |-> m]

centroid(s) == s.center
ShapeMin(s) == [a \in Axes |-> FSub(s.center[a], s.radius)]
ShapeMax(s) == [a \in Axes |-> FAdd(s.center[a], s.radius)]

\* MIN_DISTANCE = 0.001: on integers, t > MIN_DISTANCE iff t >= 1.
GtMinDistance(t) == FGe(t, 1)

SphereIntersects(s, r) ==
    LET delta_origin == VSub(r.origin, s.center)
        delta_origin_direction == Dot(delta_origin, r.direction)
        discriminant ==
            FAdd(FSub(FMul(delta_origin_direction, delta_origin_direction),
                      Dot(delta_origin, delta_origin)),
                 FMul(s.radius, s.radius))
    IN  IF FLt(discriminant, 0) THEN None
        ELSE LET t1 == FSub(FNeg(delta_origin_direction), Sqrt(discriminant))
                 t2 == FAdd(FNeg(delta_origin_direction), Sqrt(discriminant))
             IN  IF GtMinDistance(t1) THEN Some(t1)
                 ELSE IF GtMinDistance(t2) THEN Some(t2) ELSE None

(***************************************************************************)
(* bvh.rs: nodes.  Indices are 0-based as in the code: node i is           *)
(* nodes[i + 1], shape i is shapes[i + 1].  A range is <<start, end>>.     *)
(***************************************************************************)
Leaf(rng, mn, mx) ==
    [kind |-> "Leaf", shapes_range |-> rng, children |-> << >>, min |-> mn, max |-> mx]

NodeAt(ns, i) == ns[i + 1]
ShapeAt(ss, i) == ss[i + 1]
RangeSet(rng) == rng[1] .. (rng[2] - 1)

\* 2 * (x*y + x*z + y*z) of the extent min.vector_to(max)
SurfaceArea(mn, mx) ==
    LET extent == VSub(mx, mn)
    IN  FMul(2, FAdd(FAdd(FMul(extent[1], extent[2]), FMul(extent[1], extent[3])),
                     FMul(extent[2], extent[3])))

\* smallest_bounds with the fold started from the origin instead of from
\* (+inf, -inf).
RECURSIVE smallest_bounds_from_origin(_, _)
smallest_bounds_from_origin(ss, ixs) ==
    IF ixs = << >>
    THEN <<[a \in Axes |-> 0], [a \in Axes |-> 0]>>
    ELSE LET prev == smallest_bounds_from_origin(ss, SubSeq(ixs, 1, Len(ixs) - 1))
             s == ShapeAt(ss, ixs[Len(ixs)])
         IN  <<VMin(prev[1], ShapeMin(s)), VMax(prev[2], ShapeMax(s))>>

\* A fold over the centroids instead of the extrema of the shapes.
RECURSIVE smallest_bounds_of_centroids(_, _)
smallest_bounds_of_centroids(ss, ixs) ==
    IF ixs = << >>
    THEN <<[a \in Axes |-> INFINITY], [a \in Axes |-> NEG_INFINITY]>>
    ELSE LET prev == smallest_bounds_of_centroids(ss, SubSeq(ixs, 1, Len(ixs) - 1))
             s == ShapeAt(ss, ixs[Len(ixs)])
         IN  <<VMin(prev[1], centroid(s)), VMax(prev[2], centroid(s))>>

\* The fold of smallest_bounds over the indices `ixs` (a sequence, in
\* iteration order) of `ss`.
RECURSIVE smallest_bounds(_, _)
smallest_bounds(ss, ixs) ==
    IF ixs = << >>
    THEN <<[a \in Axes |-> INFINITY], [a \in Axes |-> NEG_INFINITY]>>
    ELSE LET prev == smallest_bounds(ss, SubSeq(ixs, 1, Len(ixs) - 1))
             s == ShapeAt(ss, ixs[Len(ixs)])
         IN  <<VMin(prev[1], ShapeMin(s)), VMax(prev[2], ShapeMax(s))>>

RangeSeq(rng) == [k \in 1..(rng[2] - rng[1]) |-> rng[1] + k - 1]

\* The elements of sequence `ixs` that satisfy Keep, in order.
RECURSIVE FilterIx(_, _, _, _, _)
FilterIx(ss, ixs, child, axis, split) ==
    IF ixs = << >> THEN << >>
    ELSE LET c == FMul(bins_per_axis, centroid(ShapeAt(ss, Head(ixs)))[axis + 1])
             keep == IF child = 0 THEN FLt(c, split) ELSE FGe(c, split)
             rest == FilterIx(ss, Tail(ixs), child, axis, split)
         IN  IF keep THEN <<Head(ixs)>> \o rest ELSE rest

\* One side (child = 0: centroid < split, child = 1: centroid >= split) of a
\* candidate split: <<cost, surface area>>.  The cost
\* (surface_area / parent_surface_area) * 2 * num is kept multiplied by
\* parent_surface_area, which is the same positive finite number for every
\* candidate of one get_split call whenever a side is non-empty.
SplitSide(ss, rng, child, axis, split) ==
    LET indices == FilterIx(ss, RangeSeq(rng), child, axis, split)
        num == Len(indices)
        b == smallest_bounds(ss, indices)
        surface_area == SurfaceArea(b[1], b[2])
    IN  IF num = 0 THEN <<INFINITY, NAN>>
        ELSE <<FMul(FMul(surface_area, ShapeCost), num), surface_area>>

\* candidate_split, kept multiplied by bins_per_axis:
\* min + (extent / 16) * offset_num
CandidateSplit(node, offset_num, axis) ==
    LET extent == VSub(node.max, node.min)
    IN  FAdd(FMul(bins_per_axis, node.min[axis + 1]), FMul(extent[axis + 1], offset_num))

\* The k-th candidate of the loops `for offset_num in 1..16 { for axis in 0..3`
CandOffset(k) == ((k - 1) \div 3) + 1
CandAxis(k) == (k - 1) % 3
NumCandidates == (bins_per_axis - 1) * 3

CandidateCost(node, ss, k) ==
    LET split == CandidateSplit(node, CandOffset(k), CandAxis(k))
        lt == SplitSide(ss, node.shapes_range, 0, CandAxis(k), split)
        ge == SplitSide(ss, node.shapes_range, 1, CandAxis(k), split)
    IN  [axis |-> CandAxis(k), split |-> split, cost |-> FAdd(lt[1], ge[1]),
         surface_areas |-> <<lt[2], ge[2]>>]

\* The loops over offset_num and axis, from candidate k on, with best_split
\* as it stands before candidate k.
RECURSIVE GetSplitLoop(_, _, _, _)
GetSplitLoop(node, ss, k, best_split) ==
    IF k > NumCandidates THEN best_split
    ELSE LET cand == CandidateCost(node, ss, k)
         IN  IF FLt(cand.cost, best_split.cost)
             THEN GetSplitLoop(node, ss, k + 1, cand)
             ELSE GetSplitLoop(node, ss, k + 1, best_split)

get_split(node, ss) ==
    GetSplitLoop(node, ss, 1,
                 [axis |-> 0, split |-> 0, cost |-> INFINITY, surface_areas |-> <<NAN, NAN>>])

\* The termination test without the traversal cost: `cost >= 2. * num`.
StopSubdividing_no_traversal_cost(cost, surface_area, num) ==
    IF ~is_finite(cost) \/ ~is_finite(surface_area)
    THEN FGe(cost, ShapeCost * num)
    ELSE cost >= ShapeCost * num * surface_area

\* The termination test with the traversal cost taken once per shape:
\* `15. * num + cost >= 2. * num`.
StopSubdividing_cost_per_shape(cost, surface_area, num) ==
    IF ~is_finite(cost) \/ ~is_finite(surface_area)
    THEN FGe(FAdd(TraversalCost * num, cost), ShapeCost * num)
    ELSE TraversalCost * num * surface_area + cost >= ShapeCost * num * surface_area

\* `15. + cost >= 2. * num as f32`, with cost kept multiplied by the
\* node's surface area.
StopSubdividing(cost, surface_area, num) ==
    IF ~is_finite(cost) \/ ~is_finite(surface_area)
    THEN FGe(FAdd(TraversalCost, cost), ShapeCost * num)
    ELSE TraversalCost * surface_area + cost >= ShapeCost * num * surface_area

\* The predicate with the comparison turned round.
PartitionPred_ge(shape, axis, split) ==
    FGe(FMul(bins_per_axis, centroid(shape)[axis + 1]), split)

\* Iterator::partition_in_place on the sub-slice: repeatedly find the first
\* `false` from the front and swap it with the last `true` from the back.
\* Returns <<slice, true_count>>.
PartitionPred(shape, axis, split) ==
    FLt(FMul(bins_per_axis, centroid(shape)[axis + 1]), split)

\* A swap that loses the element at position i: both positions end up
\* holding s[j].
Swap_overwrite(s, i, j) == [s EXCEPT ![i] = s[j]]

Swap(s, i, j) == [s EXCEPT ![i] = s[j], ![j] = s[i]]

RECURSIVE PipFind(_, _, _, _, _, _)
RECURSIVE PipRfind(_, _, _, _, _, _, _)
PipFind(s, lo, hi, true_count, axis, split) ==
    IF lo > hi THEN <<s, true_count>>
    ELSE IF PartitionPred(s[lo], axis, split)
         THEN PipFind(s, lo + 1, hi, true_count + 1, axis, split)
         ELSE PipRfind(s, lo, lo + 1, hi, true_count, axis, split)
PipRfind(s, head, lo, hi, true_count, axis, split) ==
    IF hi < lo THEN <<s, true_count>>
    ELSE IF PartitionPred(s[hi], axis, split)
         THEN PipFind(Swap(s, head, hi), lo, hi - 1, true_count + 1, axis, split)
         ELSE PipRfind(s, head, lo, hi - 1, true_count, axis, split)

partition_in_place(slice, axis, split) == PipFind(slice, 1, Len(slice), 0, axis, split)

\* The partition run over the whole array instead of the node's sub-slice.
PartitionRange_whole_array(ss, rng, axis, split) ==
    partition_in_place(ss, axis, split)

\* bvh.rs:173-181: partition_in_place on the sub-slice
\* index_range_mut(shapes_range, shapes); the partition point is the number
\* of `true` shapes plus shapes_range.start.  Returns <<shapes, partition_point>>.
PartitionRange(ss, rng, axis, split) ==
    LET p == partition_in_place(SubSeq(ss, rng[1] + 1, rng[2]), axis, split)
    IN  <<SubSeq(ss, 1, rng[1]) \o p[1] \o SubSeq(ss, rng[2] + 1, Len(ss)),
          p[2] + rng[1]>>

\* The child ranges with the first one left as the whole range of the node.
ChildRanges_first_whole(rng, partition_point) ==
    << <<rng[1], rng[2]>>, <<partition_point, rng[2]>> >>

\* The child ranges with the second one started one past the partition point.
ChildRanges_skip_one(rng, partition_point) ==
    << <<rng[1], partition_point>>, <<partition_point + 1, rng[2]>> >>

\* The two child ranges made from the partition point.
ChildRanges(rng, partition_point) ==
    << <<rng[1], partition_point>>, <<partition_point, rng[2]>> >>

Frame(index, surface_area) ==
    [index |-> index, surface_area |-> surface_area, pc |-> "enter",
     child_ranges |-> << >>, child_surface_areas |-> << >>, children |-> << >>]

Top(st) == st[Len(st)]
Pop(st) == SubSeq(st, 1, Len(st) - 1)

(***************************************************************************)
(* BvhNode::new                                                            *)
(***************************************************************************)
BvhNew ==
    /\ bphase = "new"
    /\ LET shapes_range == <<0, Len(shapes)>>
           b == smallest_bounds(shapes, RangeSeq(shapes_range))
           surface_area == SurfaceArea(b[1], b[2])
       IN  /\ nodes' = <<Leaf(shapes_range, b[1], b[2])>>
           /\ frames' = <<Frame(0, surface_area)>>
    /\ bphase' = "subdividing"
    /\ UNCHANGED <<shapes, shapes0, ray, stack, closest_hit, result, qphase, inspected,
                   pushed_nodes, stack_before>>
    /\ UNCHANGED <<renderVars, aabbVars, rayVars>>

\* A return of subdivide: the frame is popped; the return of the outermost
\* call is the return of BvhNode::new.
Return(fs) == /\ frames' = Pop(fs)
              /\ bphase' = IF Len(fs) = 1 THEN "built" ELSE bphase

\* subdivide, lines 158-196: the split decision and the in-place partition.
SubdivideEnter ==
    /\ bphase = "subdividing"
    /\ frames # << >>
    /\ Top(frames).pc = "enter"
    /\ LET f == Top(frames)
           node == NodeAt(nodes, f.index)
           shapes_range == node.shapes_range
           num == shapes_range[2] - shapes_range[1]
       IN  \E best \in {get_split(node, shapes)} :
             IF StopSubdividing(best.cost, f.surface_area, num)
             THEN /\ Return(frames)
                  /\ UNCHANGED shapes
             ELSE \E p \in {PartitionRange(shapes, shapes_range, best.axis, best.split)} :
                    LET partition_point == p[2]
                    IN  /\ shapes' = p[1]
                        /\ frames' = [frames EXCEPT ![Len(frames)] =
                                        [f EXCEPT !.pc = "children",
                                                  !.child_ranges =
                                                      ChildRanges(shapes_range, partition_point),
                                                  !.child_surface_areas = best.surface_areas]]
                        /\ bphase' = bphase
    /\ UNCHANGED <<shapes0, nodes, ray, stack, closest_hit, result, qphase, inspected,
                   pushed_nodes, stack_before>>
    /\ UNCHANGED <<renderVars, aabbVars, rayVars>>

\* The index of the last node there is, instead of that of the node about
\* to be pushed.
ChildIndex_of_last_node(ns) == Len(ns) - 1

\* `Indexer::new(nodes.len())`, taken just before `nodes.push(child)`.
ChildIndex(ns) == Len(ns)

\* subdivide, lines 198-221: one round of array::from_fn: the child node is
\* pushed and subdivide is called on it.
SubdivideChild ==
    /\ bphase = "subdividing"
    /\ frames # << >>
    /\ Top(frames).pc = "children"
    /\ Len(Top(frames).children) < 2
    /\ LET f == Top(frames)
           child_range_index == Len(f.children)
           shapes_range == f.child_ranges[child_range_index + 1]
           b == smallest_bounds(shapes, RangeSeq(shapes_range))
           child_index == ChildIndex(nodes)
       IN  /\ nodes' = Append(nodes, Leaf(shapes_range, b[1], b[2]))
           /\ frames' = Append([frames EXCEPT ![Len(frames)] =
                                   [f EXCEPT !.children = Append(f.children, child_index)]],
                               Frame(child_index, f.child_surface_areas[child_range_index + 1]))
    /\ UNCHANGED <<shapes, shapes0, bphase, ray, stack, closest_hit, result, qphase,
                   inspected, pushed_nodes, stack_before>>
    /\ UNCHANGED <<renderVars, aabbVars, rayVars>>

\* subdivide, line 223: the node becomes a Branch, and the call returns.
SubdivideFinish ==
    /\ bphase = "subdividing"
    /\ frames # << >>
    /\ Top(frames).pc = "children"
    /\ Len(Top(frames).children) = 2
    /\ LET f == Top(frames)
       IN  nodes' = [nodes EXCEPT ![f.index + 1] =
                       [@ EXCEPT !.kind = "Branch", !.shapes_range = << >>,
                                 !.children = f.children]]
    /\ Return(frames)
    /\ UNCHANGED <<shapes, shapes0, ray, stack, closest_hit, result, qphase, inspected,
                   pushed_nodes, stack_before>>
    /\ UNCHANGED <<renderVars, aabbVars, rayVars>>

(***************************************************************************)
(* impl Intersects for BvhNode: the slab test                              *)
(***************************************************************************)
BoxIntersects(node, r) ==
    LET t1 == [a \in Axes |-> FDiv(FSub(node.min[a], r.origin[a]), r.direction[a])]
        t2 == [a \in Axes |-> FDiv(FSub(node.max[a], r.origin[a]), r.direction[a])]
        lo == VMin(t1, t2)
        hi == VMax(t1, t2)
        tmin == FMax(FMax(lo[1], lo[2]), lo[3])
        tmax == FMin(FMin(hi[1], hi[2]), hi[3])
    IN  IF FGe(tmax, tmin) /\ FGt(tmax, 0) THEN Some(tmin) ELSE None

(***************************************************************************)
(* BvhNode::closest_shape                                                  *)
(***************************************************************************)
\* Indexer::new(u32::MAX), the index of no shape.  TLC's integers end at
\* 2^31 - 1, which stands for u32::MAX here.
U32_MAX == 2147483647

\* A child test that does not look at the closest hit so far.
ChildTest_any_distance(child_node_index, r, ns, closest) ==
    BoxIntersects(NodeAt(ns, child_node_index), r)

\* The test of one child of a Branch: its entry distance when the box is hit
\* closer than the closest hit so far.
ChildTest(child_node_index, r, ns, closest) ==
    LET intersection == BoxIntersects(NodeAt(ns, child_node_index), r)
    IN  IF intersection # None /\ FLt(intersection[1], closest)
        THEN intersection ELSE None

\* Pushes that put the nearer child below the farther one.
BranchPushes_nearer_first(children, r, ns, closest) ==
    LET d0 == ChildTest(children[1], r, ns, closest)
        d1 == ChildTest(children[2], r, ns, closest)
    IN  IF d0 # None /\ d1 # None
        THEN IF FLt(d0[1], d1[1])
             THEN << <<d0[1], children[1]>>, <<d1[1], children[2]>> >>
             ELSE << <<d1[1], children[2]>>, <<d0[1], children[1]>> >>
        ELSE IF d0 # None THEN << <<d0[1], children[1]>> >>
        ELSE IF d1 # None THEN << <<d1[1], children[2]>> >>
        ELSE << >>

\* Pushes that put the first child on the stack twice when both are hit.
BranchPushes_first_twice(children, r, ns, closest) ==
    LET d0 == ChildTest(children[1], r, ns, closest)
        d1 == ChildTest(children[2], r, ns, closest)
    IN  IF d0 # None /\ d1 # None
        THEN << <<d0[1], children[1]>>, <<d0[1], children[1]>> >>
        ELSE IF d0 # None THEN << <<d0[1], children[1]>> >>
        ELSE IF d1 # None THEN << <<d1[1], children[2]>> >>
        ELSE << >>

\* The pushes of a Branch, in the order they are made.
BranchPushes(children, r, ns, closest) ==
    LET d0 == ChildTest(children[1], r, ns, closest)
        d1 == ChildTest(children[2], r, ns, closest)
    IN  IF d0 # None /\ d1 # None
        THEN IF FLt(d0[1], d1[1])
             THEN << <<d1[1], children[2]>>, <<d0[1], children[1]>> >>
             ELSE << <<d0[1], children[1]>>, <<d1[1], children[2]>> >>
        ELSE IF d0 # None THEN << <<d0[1], children[1]>> >>
        ELSE IF d1 # None THEN << <<d1[1], children[2]>> >>
        ELSE << >>

\* The loop over a Leaf's range: closest_hit after the shapes `ixs`.
RECURSIVE LeafScan(_, _, _, _)
LeafScan(ixs, r, ss, closest) ==
    IF ixs = << >> THEN closest
    ELSE LET time == SphereIntersects(ShapeAt(ss, Head(ixs)), r)
             next == IF time # None /\ FLt(time[1], closest[1])
                     THEN <<time[1], Head(ixs)>> ELSE closest
         IN  LeafScan(Tail(ixs), r, ss, next)

\* A traversal that never skips an entry.
Prune_never(best, entry_distance) == FALSE

\* lines 252-254: `if closest_hit.0 <= entry.0 { continue; }`
Prune(best, entry_distance) == FLe(best, entry_distance)

\* A start that keeps what the caller left on the scratch stack.
StackClear_keeps(st) == st

\* line 233: `stack.clear()`
StackClear(st) == << >>

\* lines 233-246: the scratch stack is cleared and the root pushed.
ClosestShapeStart(r) ==
    /\ bphase = "built"
    /\ qphase = "idle"
    /\ ray' = r
    /\ closest_hit' = <<INFINITY, U32_MAX>>
    /\ stack' = Append(StackClear(stack), <<0, 0>>)
    /\ result' = None
    /\ inspected' = << >>
    /\ pushed_nodes' = <<0>>
    /\ stack_before' = stack
    /\ qphase' = "traversing"
    /\ UNCHANGED <<shapes, shapes0, nodes, frames, bphase>>
    /\ UNCHANGED <<renderVars, aabbVars, rayVars>>

\* One round of `while let Some(entry) = stack.pop()`.  `entry.1.index(nodes)`
\* is a checked slice access: an index that is not one of `nodes` panics.
ClosestShapePop ==
    /\ qphase = "traversing"
    /\ stack # << >>
    /\ LET entry == Top(stack)
           rest == Pop(stack)
       IN  IF Prune(closest_hit[1], entry[1])
           THEN /\ stack' = rest
                /\ UNCHANGED <<closest_hit, inspected, pushed_nodes, qphase>>
           ELSE IF entry[2] \notin 0 .. (Len(nodes) - 1)
           THEN /\ stack' = rest
                /\ qphase' = "panicked"
                /\ UNCHANGED <<closest_hit, inspected, pushed_nodes>>
           ELSE LET node == NodeAt(nodes, entry[2])
                IN  /\ inspected' = Append(inspected, entry[2])
                    /\ qphase' = qphase
                    /\ IF node.kind = "Branch"
                       THEN \E pushes \in {BranchPushes(node.children, ray, nodes,
                                                        closest_hit[1])} :
                              /\ stack' = rest \o pushes
                              /\ pushed_nodes' =
                                    pushed_nodes \o [k \in 1 .. Len(pushes) |-> pushes[k][2]]
                              /\ UNCHANGED closest_hit
                       ELSE /\ stack' = rest
                            /\ pushed_nodes' = pushed_nodes
                            /\ closest_hit' = LeafScan(RangeSeq(node.shapes_range), ray,
                                                       shapes, closest_hit)
    /\ UNCHANGED <<shapes, shapes0, nodes, frames, bphase, ray, result, stack_before>>
    /\ UNCHANGED <<renderVars, aabbVars, rayVars>>

\* lines 300-313: the loop has ended, the hit is returned.
ClosestShapeReturn ==
    /\ qphase = "traversing"
    /\ stack = << >>
    /\ result' = IF is_finite(closest_hit[1])
                 THEN Some([time |-> closest_hit[1],
                            hit_point |-> VAdd(ray.origin, VScale(ray.direction, closest_hit[1])),
                            material_index |-> ShapeAt(shapes, closest_hit[2]).material_index])
                 ELSE None
    /\ qphase' = "done"
    /\ UNCHANGED <<shapes, shapes0, nodes, frames, bphase, ray, stack, closest_hit,
                   inspected, pushed_nodes, stack_before>>
    /\ UNCHANGED <<renderVars, aabbVars, rayVars>>

(***************************************************************************)
(* The inputs: shape arrays and rays.                                      *)
(***************************************************************************)
\* Unit spheres at three places: two 48 apart along x, one 320 away along y.
SphereKinds ==
    << Sphere(<<0, 0, 0>>, 1, 0), Sphere(<<48, 0, 0>>, 1, 1), Sphere(<<0, 320, 0>>, 1, 2) >>

Repeat(x, n) == [k \in 1..n |-> x]
Reverse(s) == [k \in 1..Len(s) |-> s[Len(s) + 1 - k]]

\* A sphere of radius 15 beside the line through the first two places: its
\* box overlaps the box around them and holds the first place.
OverlappingSphere == Sphere(<<12, 11, 10>>, 15, 3)

\* c[k] copies of each kind, kind by kind.
SeparatedArrays ==
    { Repeat(SphereKinds[1], c[1]) \o Repeat(SphereKinds[2], c[2])
        \o Repeat(SphereKinds[3], c[3]) :
      c \in { c \in [1..3 -> 0..MaxShapes] : c[1] + c[2] + c[3] <= MaxShapes } }

\* Copies of the first two kinds and the overlapping sphere.
OverlappingArrays ==
    { Repeat(SphereKinds[1], c[1]) \o Repeat(SphereKinds[2], c[2]) \o <<OverlappingSphere>> :
      c \in { c \in [1..2 -> 0..MaxShapes] : c[1] + c[2] + 1 <= MaxShapes } }

\* The shape arrays, as given or reversed.
InputArrays ==
    { IF rev THEN Reverse(a) ELSE a :
        rev \in BOOLEAN, a \in SeparatedArrays \cup OverlappingArrays }

Ray(o, d) == [origin |-> o, direction |-> d]

RayOrigins ==
    { <<-5, 0, 0>>, <<-5, 1, 0>>, <<60, 0, 0>>, <<0, -5, 0>>, <<0, 400, 0>>, <<48, -5, 0>>,
      <<0, 0, 0>>, <<1, 330, 0>>, <<0, 0, -7>> }
RayDirections ==
    { <<1, 0, 0>>, <<-1, 0, 0>>, <<0, 1, 0>>, <<0, -1, 0>>, <<0, 0, 1>>, <<0, 0, -1>> }
Rays == { Ray(o, d) : o \in RayOrigins, d \in RayDirections }

BvhLocalsIdle ==
    /\ nodes = << >>
    /\ frames = << >>
    /\ bphase = "new"
    /\ ray = Ray(<<0, 0, 0>>, <<1, 0, 0>>)
    /\ stack = << >>
    /\ closest_hit = <<INFINITY, U32_MAX>>
    /\ result = None
    /\ qphase = "idle"
    /\ inspected = << >>
    /\ pushed_nodes = << >>
    /\ stack_before = << >>

BvhInit ==
    /\ shapes \in InputArrays
    /\ shapes0 = shapes
    /\ BvhLocalsIdle

\* No shape array has been handed to the builder.
BvhIdle ==
    /\ shapes = << >>
    /\ shapes0 = << >>
    /\ BvhLocalsIdle

BvhNext ==
    \/ BvhNew
    \/ SubdivideEnter
    \/ SubdivideChild
    \/ SubdivideFinish
    \/ \E r \in Rays : ClosestShapeStart(r)
    \/ ClosestShapePop
    \/ ClosestShapeReturn

(***************************************************************************)
(* lib.rs: Scene::render.  One colour channel is modelled; the three are   *)
(* computed alike.  A sample's radiance is 0 or 1, fixed by the random     *)
(* stream `seed`, the pixel and the number of the sample.                  *)
(***************************************************************************)
Radiance(sd, offset_i, sample) ==
    IF sd = 0 THEN 1 ELSE (offset_i + sample + sd) % 2

\* The sum of the sample_chunk_size samples of one batch of one pixel.
RECURSIVE BatchSum(_, _, _, _)
BatchSum(sd, offset_i, first, count) ==
    IF count = 0 THEN 0
    ELSE Radiance(sd, offset_i, first) + BatchSum(sd, offset_i, first + 1, count - 1)

\* color.color_correct().into(): (sqrt(num / den) * 255.) as u8, the
\* largest n with (n / 255)^2 <= num / den (the n that satisfy it are
\* 0 .. that one).
GammaByte(num, den) ==
    Cardinality({n \in 0 .. 255 : n * n * den <= 65025 * num}) - 1

\* ((Color::<f32>::from(old) * sample_iteration + color.color_correct())
\*   / (sample_iteration + 1)).into(), for a batch average num / den: the
\* largest n with n * (s + 1) <= old * s + 255 * sqrt(num / den).
FoldByte(old, sample_iteration, num, den) ==
    Cardinality({n \in 0 .. 255 :
                   LET m == n * (sample_iteration + 1) - old * sample_iteration
                   IN  m <= 0 \/ m * m * den <= 65025 * num}) - 1

\* work_index / chunks.len() and work_index % chunks.len()
SampleIteration(work_index, chunks_len) == work_index \div chunks_len
ChunkIndex(work_index, chunks_len) == work_index % chunks_len

\* The work of one sweep only: chunks.len().
TotalWork_one_sweep(chunks_len, num_sample_chunks) == chunks_len

\* chunks.len() * num_sample_chunks
TotalWork(chunks_len, num_sample_chunks) == chunks_len * num_sample_chunks

\* slice::chunks_mut(chunk_size) over `len` cells: the number of chunks and
\* the length of chunk k (the last one may be shorter).
\* chunks_exact_mut: the remainder is left out.
ChunksLen_exact(len, chunk_size) == len \div chunk_size

\* chunks_mut(chunk_size).len()
ChunksLen(len, chunk_size) == (len + chunk_size - 1) \div chunk_size
ChunkLength(len, chunk_size, k) ==
    IF (k + 1) * chunk_size <= len THEN chunk_size ELSE len - k * chunk_size

\* A lock that never waits.
CanLock_never_waits(holder) == TRUE

\* Mutex::lock returns when no thread holds the mutex.
CanLock(holder) == holder = 0

\* A guard that is never dropped.
Unlock_forgotten(chs, chunk_index) == chs

\* The MutexGuard `chunk` goes out of scope at the end of the loop body.
Unlock(chs, chunk_index) == [chs EXCEPT ![chunk_index] = 0]

Worker(pc, work_index, i) == [pc |-> pc, work_index |-> work_index, i |-> i]

NumPixels == scene.screen.resolution_width * scene.screen.resolution_height

\* lines 255-278: Image::new, the chunks, the work counter; chunks_mut
\* panics on a chunk size of 0, the division of line 275 on a divisor of 0.
RenderStart ==
    /\ rphase = "start"
    /\ LET chunk_size == NumPixels \div (num_threads * num_threads)
           sample_chunk_size ==
               IF scene.incremental = None THEN scene.screen.samples_per_pixel
               ELSE scene.incremental[1]
           num_sample_chunks == scene.screen.samples_per_pixel \div sample_chunk_size
       IN  IF chunk_size = 0
           THEN /\ rphase' = "panicked"
                /\ image' = [data |-> [k \in 1 .. NumPixels |-> 0], file |-> << >>]
                /\ UNCHANGED <<locals, chunks, workers>>
           ELSE IF sample_chunk_size = 0
           THEN /\ rphase' = "divide_by_zero"
                /\ image' = [data |-> [k \in 1 .. NumPixels |-> 0], file |-> << >>]
                /\ UNCHANGED <<locals, chunks, workers>>
           ELSE LET chunks_len == ChunksLen(NumPixels, chunk_size)
                IN  /\ rphase' = "running"
                    /\ image' = [data |-> [k \in 1 .. NumPixels |-> 0], file |-> << >>]
                    /\ locals' = [chunk_size |-> chunk_size,
                                  chunks_len |-> chunks_len,
                                  sample_chunk_size |-> sample_chunk_size,
                                  num_sample_chunks |-> num_sample_chunks,
                                  total_work |-> TotalWork(chunks_len, num_sample_chunks)]
                    /\ chunks' = [k \in 0 .. (chunks_len - 1) |-> 0]
                    /\ workers' = [w \in 1 .. num_threads |-> Worker("loop", 0, 0)]
    /\ work_counter' = 0
    /\ processed' = << >>
    /\ samples_taken' = [k \in 1 .. NumPixels |-> 0]
    /\ UNCHANGED <<scene, num_threads, seed>>
    /\ UNCHANGED <<bvhVars, aabbVars, rayVars>>

\* lines 286-293: the fetch_add and the test against total_work.
WorkerClaim(w) ==
    /\ rphase = "running"
    /\ workers[w].pc = "loop"
    /\ work_counter' = work_counter + 1
    /\ workers' = [workers EXCEPT ![w] =
                     IF work_counter >= locals.total_work
                     THEN Worker("exited", work_counter, 0)
                     ELSE Worker("lock", work_counter, 0)]
    /\ UNCHANGED <<scene, num_threads, seed, rphase, image, locals, chunks, processed, samples_taken>>
    /\ UNCHANGED <<bvhVars, aabbVars, rayVars>>

\* line 295: chunks[chunk_index].lock()
WorkerLock(w) ==
    /\ rphase = "running"
    /\ workers[w].pc = "lock"
    /\ LET chunk_index == ChunkIndex(workers[w].work_index, locals.chunks_len)
       IN  /\ CanLock(chunks[chunk_index])
           /\ chunks' = [chunks EXCEPT ![chunk_index] = w]
    /\ workers' = [workers EXCEPT ![w].pc = "pixels", ![w].i = 0]
    /\ UNCHANGED <<scene, num_threads, seed, rphase, image, locals, work_counter, processed, samples_taken>>
    /\ UNCHANGED <<bvhVars, aabbVars, rayVars>>

\* lines 298-343: one round of `for i in 0..chunk.len()`: the batch average
\* of pixel offset_i is computed and stored in (or folded into) chunk[i].
WorkerPixel(w) ==
    /\ rphase = "running"
    /\ workers[w].pc = "pixels"
    /\ LET work_index == workers[w].work_index
           sample_iteration == SampleIteration(work_index, locals.chunks_len)
           chunk_index == ChunkIndex(work_index, locals.chunks_len)
           i == workers[w].i
           offset_i == chunk_index * locals.chunk_size + i
           sum == BatchSum(seed, offset_i, sample_iteration * locals.sample_chunk_size,
                           locals.sample_chunk_size)
       IN  /\ i < ChunkLength(NumPixels, locals.chunk_size, chunk_index)
           /\ image' = [image EXCEPT !.data[offset_i + 1] =
                          IF scene.incremental # None
                          THEN FoldByte(@, sample_iteration, sum, locals.sample_chunk_size)
                          ELSE GammaByte(sum, locals.sample_chunk_size)]
           /\ samples_taken' = [samples_taken EXCEPT ![offset_i + 1] =
                                  @ + locals.sample_chunk_size]
           /\ workers' = [workers EXCEPT ![w].i = i + 1]
    /\ UNCHANGED <<scene, num_threads, seed, rphase, locals, work_counter, chunks, processed>>
    /\ UNCHANGED <<bvhVars, aabbVars, rayVars>>

\* File::write_at: `bytes` stored from position `pos` on; a hole is zeros.
WriteAt(file, bytes, pos) ==
    [k \in 1 .. MaxOf({Len(file), pos + Len(bytes)}) |->
        IF k > pos /\ k <= pos + Len(bytes) THEN bytes[k - pos]
        ELSE IF k <= Len(file) THEN file[k] ELSE 0]

\* lines 345-363: in incremental mode the chunk is written to the file; the
\* MutexGuard is dropped at the end of the loop body.
WorkerEndOfItem(w) ==
    /\ rphase = "running"
    /\ workers[w].pc = "pixels"
    /\ LET work_index == workers[w].work_index
           sample_iteration == SampleIteration(work_index, locals.chunks_len)
           chunk_index == ChunkIndex(work_index, locals.chunks_len)
           length == ChunkLength(NumPixels, locals.chunk_size, chunk_index)
           first == chunk_index * locals.chunk_size
           item == <<chunk_index, sample_iteration>>
       IN  /\ workers[w].i = length
           /\ image' = IF scene.incremental # None
                       THEN [image EXCEPT !.file =
                               WriteAt(@, SubSeq(image.data, first + 1, first + length), first)]
                       ELSE image
           /\ chunks' = Unlock(chunks, chunk_index)
           /\ processed' = IF item \in DOMAIN processed
                           THEN [processed EXCEPT ![item] = @ + 1]
                           ELSE processed @@ (item :> 1)
    /\ workers' = [workers EXCEPT ![w].pc = "loop"]
    /\ UNCHANGED <<scene, num_threads, seed, rphase, locals, work_counter, samples_taken>>
    /\ UNCHANGED <<bvhVars, aabbVars, rayVars>>

\* lines 366-372: the scope ends when every thread has left its loop; the
\* image is written when it was not written incrementally.
RenderJoin ==
    /\ rphase = "running"
    /\ \A w \in DOMAIN workers : workers[w].pc = "exited"
    /\ image' = IF scene.incremental = None
                THEN [image EXCEPT !.file = image.file \o image.data]
                ELSE image
    /\ rphase' = "done"
    /\ UNCHANGED <<scene, num_threads, seed, locals, work_counter, chunks, workers, processed, samples_taken>>
    /\ UNCHANGED <<bvhVars, aabbVars, rayVars>>

\* The screens and the `incremental(...)` entries a configuration can hold.
Screens ==
    { sc \in [resolution_width : 1 .. MaxPixels, resolution_height : 1 .. MaxPixels,
              samples_per_pixel : 0 .. MaxSamples] :
        sc.resolution_width * sc.resolution_height <= MaxPixels }
Configs ==
    [screen : Screens, incremental : {None} \cup {Some(k) : k \in 0 .. MaxSamples}]

\* config.rs lines 120-123: the two assertions on `incremental`.
ParseAccepts(screen, incremental) ==
    incremental # None =>
        /\ incremental[1] # 0
        /\ screen.samples_per_pixel % incremental[1] = 0

\* The scenes config::parse returns.
Scenes == { sc \in Configs : ParseAccepts(sc.screen, sc.incremental) }

\* config::parse: the Scene is handed to render unless an assertion fails.
ConfigParse ==
    /\ rphase = "config"
    /\ rphase' = IF ParseAccepts(scene.screen, scene.incremental) THEN "start" ELSE "aborted"
    /\ UNCHANGED <<scene, num_threads, seed, image, locals, work_counter, chunks, workers,
                   processed, samples_taken>>
    /\ UNCHANGED <<bvhVars, aabbVars, rayVars>>

RenderLocalsIdle ==
    /\ image = [data |-> << >>, file |-> << >>]
    /\ locals = [chunk_size |-> 0, chunks_len |-> 0, sample_chunk_size |-> 0,
                 num_sample_chunks |-> 0, total_work |-> 0]
    /\ work_counter = 0
    /\ chunks = << >>
    /\ workers = << >>
    /\ processed = << >>
    /\ samples_taken = << >>

RenderIdle ==
    /\ scene = [screen |-> [resolution_width |-> 1, resolution_height |-> 1,
                            samples_per_pixel |-> 1],
                incremental |-> None]
    /\ num_threads = 1
    /\ seed = 0
    /\ rphase = "start"
    /\ RenderLocalsIdle

RenderInit ==
    /\ scene \in Configs
    /\ num_threads \in 1 .. MaxThreads
    /\ seed \in 0 .. MaxSeed
    /\ rphase = "config"
    /\ RenderLocalsIdle

RenderNext ==
    \/ ConfigParse
    \/ RenderStart
    \/ \E w \in DOMAIN workers : WorkerClaim(w)
    \/ \E w \in DOMAIN workers : WorkerLock(w)
    \/ \E w \in DOMAIN workers : WorkerPixel(w)
    \/ \E w \in DOMAIN workers : WorkerEndOfItem(w)
    \/ RenderJoin

(***************************************************************************)
(* aabb.rs: Aabb<3, f32>.                                                  *)
(***************************************************************************)
MaxCoord == 1

Aabb(mn, mx) == [min |-> mn, max |-> mx]

\* lines 14-22
AabbNew(mn, mx) == Aabb(VMin(mn, mx), VMax(mn, mx))

\* lines 43-51
AabbContains(b, point) ==
    \A a \in Axes : FGe(point[a], b.min[a]) /\ FLe(point[a], b.max[a])

\* lines 191-194
UnionPoint(b, point) == Aabb(VMin(b.min, point), VMax(b.max, point))

\* lines 197-200
UnionBox(b, value) == Aabb(VMin(b.min, value.min), VMax(b.max, value.max))

AabbUnionPoint(point) ==
    /\ aabb' = UnionPoint(aabb, point)
    /\ aabb_old' = aabb
    /\ united' = [kind |-> "point", value |-> point]
    /\ UNCHANGED <<bvhVars, renderVars, rayVars>>

AabbUnionBox(value) ==
    /\ aabb' = UnionBox(aabb, value)
    /\ aabb_old' = aabb
    /\ united' = [kind |-> "box", value |-> value]
    /\ UNCHANGED <<bvhVars, renderVars, rayVars>>

\* The f32 coordinates tried: small values and NaN.
AabbCoords == (0 .. MaxCoord) \cup {NAN}
AabbPoints == { <<x, y, z>> : x \in AabbCoords, y \in AabbCoords, z \in AabbCoords }
AabbBoxes == { AabbNew(p, q) : p \in AabbPoints, q \in AabbPoints }

AabbIdle ==
    /\ aabb = AabbNew(<<0, 0, 0>>, <<0, 0, 0>>)
    /\ aabb_old = aabb
    /\ united = [kind |-> "none"]

AabbInit ==
    /\ aabb \in AabbBoxes
    /\ aabb_old = aabb
    /\ united = [kind |-> "none"]

AabbNext ==
    \/ \E point \in AabbPoints : AabbUnionPoint(point)
    \/ \E value \in AabbBoxes : AabbUnionBox(value)

(***************************************************************************)
(* lib.rs: Scene::ray_color.  One colour channel is modelled, as a         *)
(* fraction <<num, den>>; the three are computed alike.  What the three    *)
(* closest_shape calls of a round return and what the random number        *)
(* generator gives to scatter are inputs of the round.                     *)
(***************************************************************************)
MaxBounces == 3
MaxHitTime == 2

White == <<1, 1>>
Black == <<0, 1>>
ColorMul(c, d) == <<c[1] * d[1], c[2] * d[2]>>

\* Color([0.2, 0.2, 0.8]) * (1 - a) + Color([1.; 3]) * a with
\* a = 0.5 * (y + 1), first channel: (3 + 2 y) / 5.
SkyColor(y) == <<3 + 2 * y, 5>>

\* The materials of the scene: kind, fuzziness where it has one, and the
\* colour color_kind.sample() gives.
Materials ==
    << [kind |-> "Lambertian", fuzziness |-> 0, color |-> <<1, 2>>],
       [kind |-> "Metal", fuzziness |-> 0, color |-> <<1, 2>>],
       [kind |-> "Metal", fuzziness |-> 1, color |-> <<1, 1>>],
       [kind |-> "Glass", fuzziness |-> 0, color |-> <<1, 1>>],
       [kind |-> "Light", fuzziness |-> 0, color |-> <<3, 1>>] >>

\* Material::scatter.  rnd.y is the y component of the direction the random
\* numbers lead to, rnd.outward whether the fuzzed reflection points out of
\* the shape (direction.dot(normal) > 0).
Scatter(material, rnd) ==
    IF material.kind = "Light" THEN [kind |-> "Light", color |-> material.color]
    ELSE IF material.kind = "Metal" /\ material.fuzziness # 0 /\ ~rnd.outward
    THEN [kind |-> "Absorbed"]
    ELSE [kind |-> "Scattered", ray |-> rnd.y, color |-> material.color]

\* What one closest_shape call returns: None, or the time and the
\* material index of the nearest hit of that shape kind.
Hit(time, material_index) == Some([time |-> time, material_index |-> material_index])

\* The three calls of a round, in the order of the chain: spheres, planes,
\* triangles.
RoundHits ==
    { <<s, p, t>> :
        s \in {None} \cup {Hit(time, m) : time \in 1 .. MaxHitTime, m \in 0 .. (Len(Materials) - 1)},
        p \in {None} \cup {Hit(time, 0) : time \in 1 .. MaxHitTime},
        t \in {None} \cup {Hit(time, Len(Materials) - 1) : time \in 1 .. MaxHitTime} }

RandomDraws == [y : {-1, 0, 1}, outward : BOOLEAN]

\* Iterator::min_by over the chained options: of equally near hits the
\* first is returned.
RECURSIVE MinByTime(_, _)
MinByTime(hits, best) ==
    IF hits = << >> THEN best
    ELSE IF Head(hits) = None THEN MinByTime(Tail(hits), best)
    ELSE IF best = None THEN MinByTime(Tail(hits), Head(hits))
    ELSE IF Head(hits)[1].time < best[1].time THEN MinByTime(Tail(hits), Head(hits))
    ELSE MinByTime(Tail(hits), best)

\* `*current_color.get_or_insert(Color([1.; 3])) *= c`
Attenuate(cur, c) == Some(ColorMul(IF cur = None THEN White ELSE cur[1], c))

\* An absorption that leaves the accumulated colour as it is.
Absorb_keeps_color(cur) == cur

\* `current_color = Some(Color([0.; 3]))`
Absorb(cur) == Some(Black)

\* One round of `for _ in 0..self.screen.max_bounces`.
RayColorRound(hits, rnd) ==
    /\ cphase = "loop"
    /\ bounce < max_bounces
    /\ bounce' = bounce + 1
    /\ \E nearest_intersection \in {MinByTime(hits, None)} :
         IF nearest_intersection = None
         THEN /\ current_color' = Attenuate(current_color, SkyColor(current_ray))
              /\ cphase' = "broke"
              /\ outcomes' = Append(outcomes, "Miss")
              /\ UNCHANGED current_ray
         ELSE \E sc \in {Scatter(Materials[nearest_intersection[1].material_index + 1], rnd)} :
                /\ outcomes' = Append(outcomes, sc.kind)
                /\ IF sc.kind = "Scattered"
                   THEN /\ current_color' = Attenuate(current_color, sc.color)
                        /\ current_ray' = sc.ray
                        /\ cphase' = "loop"
                   ELSE IF sc.kind = "Absorbed"
                   THEN /\ current_color' = Absorb(current_color)
                        /\ cphase' = "broke"
                        /\ UNCHANGED current_ray
                   ELSE /\ current_color' = Attenuate(current_color, sc.color)
                        /\ cphase' = "broke"
                        /\ UNCHANGED current_ray
    /\ UNCHANGED <<max_bounces, color>>
    /\ UNCHANGED <<bvhVars, renderVars, aabbVars>>

\* The loop has ended, by `break` or after max_bounces rounds:
\* `current_color.unwrap_or(Color([0.; 3]))`.
RayColorReturn ==
    /\ \/ cphase = "broke"
       \/ cphase = "loop" /\ bounce >= max_bounces
    /\ color' = IF current_color = None THEN Black ELSE current_color[1]
    /\ cphase' = "returned"
    /\ UNCHANGED <<max_bounces, current_ray, current_color, bounce, outcomes>>
    /\ UNCHANGED <<bvhVars, renderVars, aabbVars>>

RayColorLocals ==
    /\ current_color = None
    /\ bounce = 0
    /\ outcomes = << >>
    /\ color = Black

\* No ray is being traced.
RayColorIdle ==
    /\ max_bounces = 0
    /\ current_ray = 0
    /\ cphase = "idle"
    /\ RayColorLocals

\* ray_color has been called with a primary ray.
RayColorInit ==
    /\ max_bounces \in 0 .. MaxBounces
    /\ current_ray \in {-1, 0, 1}
    /\ cphase = "loop"
    /\ RayColorLocals

RayColorNext ==
    \/ \E hits \in RoundHits, rnd \in RandomDraws : RayColorRound(hits, rnd)
    \/ RayColorReturn

\* The builder and the traversal, with no render under way.
Init ==
    /\ BvhInit
    /\ RenderIdle
    /\ AabbIdle
    /\ RayColorIdle
Next == BvhNext
Spec == Init /\ [][Next]_vars

\* A unit sphere far below the first two places: the root's split puts it
\* alone on the `lt` side, so the other shapes make the second child.
LowSphere == Sphere(<<0, -320, 0>>, 1, 4)

\* Copies of the first two kinds followed by the low sphere.
LowArrays ==
    { Repeat(SphereKinds[1], c[1]) \o Repeat(SphereKinds[2], c[2]) \o <<LowSphere>> :
      c \in { c \in [1..2 -> 0..MaxShapes] : c[1] + c[2] + 1 <= MaxShapes } }

\* BvhNode::new alone, on the arrays above and on those with the low sphere,
\* as given or reversed.
InitBuild ==
    /\ shapes \in InputArrays \cup LowArrays \cup {Reverse(a) : a \in LowArrays}
    /\ shapes0 = shapes
    /\ BvhLocalsIdle
    /\ RenderIdle
    /\ AabbIdle
    /\ RayColorIdle
BuildNext ==
    \/ BvhNew
    \/ SubdivideEnter
    \/ SubdivideChild
    \/ SubdivideFinish
SpecBuild == InitBuild /\ [][BuildNext]_vars

\* closest_shape called with a scratch stack that still holds entries, as a
\* traversal of another shape kind's BVH (with other, and more, nodes) could
\* leave them.
Leftovers ==
    { << >>, << <<0, 0>> >>, << <<3, 2>>, <<0, 1>> >>, << <<0, 7>> >> }

\* One shape; and the first two places with a third shape away from them.
ScratchArrays ==
    { <<SphereKinds[1]>>,
      Repeat(SphereKinds[1], MaxShapes - 5) \o Repeat(SphereKinds[2], 4)
          \o <<SphereKinds[3]>>,
      Repeat(SphereKinds[1], MaxShapes - 5) \o Repeat(SphereKinds[2], 4)
          \o <<OverlappingSphere>> }

InitScratch ==
    /\ shapes \in ScratchArrays
    /\ shapes0 = shapes
    /\ nodes = << >>
    /\ frames = << >>
    /\ bphase = "new"
    /\ ray = Ray(<<0, 0, 0>>, <<1, 0, 0>>)
    /\ stack \in Leftovers
    /\ closest_hit = <<INFINITY, U32_MAX>>
    /\ result = None
    /\ qphase = "idle"
    /\ inspected = << >>
    /\ pushed_nodes = << >>
    /\ stack_before = << >>
    /\ RenderIdle
    /\ AabbIdle
    /\ RayColorIdle
SpecScratch == InitScratch /\ [][BvhNext]_vars

\* Scene::ray_color on one primary ray.
InitRayColor ==
    /\ RayColorInit
    /\ BvhIdle
    /\ RenderIdle
    /\ AabbIdle
SpecRayColor == InitRayColor /\ [][RayColorNext]_vars

\* Scene::render, on a scene whose BVHs are not looked at.
InitRender ==
    /\ RenderInit
    /\ BvhIdle
    /\ AabbIdle
    /\ RayColorIdle
SpecRender == InitRender /\ [][RenderNext]_vars

\* Scene::render with every thread scheduled fairly: a step that stays
\* possible is taken (a thread at lock() proceeds once the mutex is free,
\* and a mutex is free again after its holder's loop body).
FairRender ==
    /\ WF_vars(ConfigParse)
    /\ WF_vars(RenderStart)
    /\ WF_vars(RenderJoin)
    /\ \A w \in 1 .. MaxThreads :
          /\ WF_vars(w \in DOMAIN workers /\ WorkerClaim(w))
          /\ SF_vars(w \in DOMAIN workers /\ WorkerLock(w))
          /\ WF_vars(w \in DOMAIN workers /\ WorkerPixel(w))
          /\ WF_vars(w \in DOMAIN workers /\ WorkerEndOfItem(w))
SpecRenderFair == InitRender /\ [][RenderNext]_vars /\ FairRender

\* The first lines of Scene::render (up to the spawning of the workers) on
\* rasters of up to MaxRaster pixels.
MaxRaster == 10
ChunkScenes ==
    { sc \in [screen : [resolution_width : 1 .. MaxRaster,
                        resolution_height : 1 .. MaxRaster,
                        samples_per_pixel : 1 .. MaxSamples],
              incremental : {None}] :
        sc.screen.resolution_width * sc.screen.resolution_height <= MaxRaster }
InitChunks ==
    /\ scene \in ChunkScenes
    /\ num_threads \in 1 .. MaxThreads
    /\ seed = 0
    /\ rphase = "start"
    /\ RenderLocalsIdle
    /\ BvhIdle
    /\ AabbIdle
    /\ RayColorIdle
SpecChunks == InitChunks /\ [][RenderStart]_vars

\* Union calls on a box made by Aabb::new.
InitAabb ==
    /\ AabbInit
    /\ BvhIdle
    /\ RenderIdle
    /\ RayColorIdle
SpecAabb == InitAabb /\ [][AabbNext]_vars

(***************************************************************************)
(* Properties of the BVH builder and of the traversal.                     *)
(***************************************************************************)
NodeIndices == 0 .. (Len(nodes) - 1)
LeafNodes == {i \in NodeIndices : NodeAt(nodes, i).kind = "Leaf"}
BranchNodes == {i \in NodeIndices : NodeAt(nodes, i).kind = "Branch"}

\* C1: when BvhNode::new has returned, the leaf ranges partition 0..n: no
\* leaf range reaches outside 0..n and every shape index lies in the range of
\* exactly one Leaf (so no two leaf ranges overlap).
C1_LeafRangesPartition ==
    bphase = "built" =>
        /\ \A i \in LeafNodes :
              LET rng == NodeAt(nodes, i).shapes_range
              IN  0 <= rng[1] /\ rng[1] <= rng[2] /\ rng[2] <= Len(shapes0)
        /\ \A x \in 0 .. (Len(shapes0) - 1) :
              Cardinality({i \in LeafNodes :
                             x \in RangeSet(NodeAt(nodes, i).shapes_range)}) = 1

\* A built tree of two levels: at least three leaves partition the array.
C1_Witness == bphase = "built" /\ Cardinality(LeafNodes) >= 3

\* The brute-force linear scan: the intersects() distances of all shapes.
HitTimes(ss, r) ==
    { SphereIntersects(ss[i], r)[1] :
        i \in {j \in 1 .. Len(ss) : SphereIntersects(ss[j], r) # None} }

\* C2: closest_shape returns None exactly when the linear scan finds no
\* intersecting shape, and otherwise the minimum distance of the scan with a
\* shape that attains it.
C2_SameAsBruteForce ==
    qphase = "done" =>
        LET times == HitTimes(shapes, ray)
        IN  /\ (result = None) <=> (times = {})
            /\ result # None =>
                  /\ result[1].time = MinOf(times)
                  /\ closest_hit[2] \in 0 .. (Len(shapes) - 1)
                  /\ SphereIntersects(ShapeAt(shapes, closest_hit[2]), ray)
                        = Some(MinOf(times))

\* C8: on the empty array BvhNode::new returns exactly one node, a Leaf with
\* range 0..0 and the inverted box; closest_shape visits only that node and
\* returns None.
C8_EmptySceneSafe ==
    Len(shapes0) = 0 =>
        /\ bphase = "built" =>
              nodes = <<Leaf(<<0, 0>>, [a \in Axes |-> INFINITY],
                             [a \in Axes |-> NEG_INFINITY])>>
        /\ qphase = "traversing" =>
              /\ \A k \in 1 .. Len(stack) : stack[k][2] \in NodeIndices
              /\ closest_hit = <<INFINITY, U32_MAX>>
        /\ qphase = "done" => result = None /\ stack = << >>

\* closest_shape has returned on the BVH of the empty array.
C8_Witness == Len(shapes0) = 0 /\ bphase = "built" /\ qphase = "done"

\* Two shapes at different places (48 or 320 apart, radius 1).
TwoSeparatedShapes == Len(shapes0) = 2 /\ shapes0[1].center # shapes0[2].center

\* C9 as stated: two widely separated shapes give a Branch root with two
\* Leaf children of one shape each.
C9_BranchOfTwo ==
    (bphase = "built" /\ TwoSeparatedShapes) =>
        /\ Len(nodes) = 3
        /\ NodeAt(nodes, 0).kind = "Branch"
        /\ \A c \in 1 .. 2 :
              LET child == NodeAt(nodes, NodeAt(nodes, 0).children[c])
              IN  child.kind = "Leaf" /\ child.shapes_range[2] - child.shapes_range[1] = 1

\* C9, amended: an array of exactly two shapes, however far apart, gives a
\* single Leaf root with the range 0..2, the array left in its order.
C9_TwoShapesOneLeaf ==
    (bphase = "built" /\ Len(shapes0) = 2) =>
        /\ Len(nodes) = 1
        /\ NodeAt(nodes, 0).kind = "Leaf"
        /\ NodeAt(nodes, 0).shapes_range = <<0, 2>>
        /\ shapes = shapes0

\* BvhNode::new has returned on two shapes 320 apart.
C9_Witness ==
    /\ bphase = "built"
    /\ TwoSeparatedShapes
    /\ shapes0[1].center[2] # shapes0[2].center[2]

\* The shape indices below node i: a Leaf's range, a Branch's children's.
RECURSIVE NodeShapes(_, _)
NodeShapes(ns, i) ==
    LET node == NodeAt(ns, i)
    IN  IF node.kind = "Leaf" THEN RangeSet(node.shapes_range)
        ELSE NodeShapes(ns, node.children[1]) \cup NodeShapes(ns, node.children[2])

\* The surface area of the smallest box around the shapes I of ss.
SurfaceAreaOf(ss, I) ==
    SurfaceArea([a \in Axes |-> MinOf({ShapeMin(ShapeAt(ss, i))[a] : i \in I})],
                [a \in Axes |-> MaxOf({ShapeMax(ShapeAt(ss, i))[a] : i \in I})])

\* One side's term of the cost, times the parent's surface area:
\* side_surface_area * 2 * side_count; an empty side costs +inf.
SideTerm(ss, I) ==
    IF I = {} THEN INFINITY ELSE SurfaceAreaOf(ss, I) * 2 * Cardinality(I)

\* The cost of the bin boundary `offset` (1..15) on `axis` (1..3) for the
\* shapes I in the box mn..mx, times the parent's surface area.
BoundaryCost(ss, I, mn, mx, offset, axis) ==
    LET boundary == FAdd(FMul(16, mn[axis]), FMul(FSub(mx[axis], mn[axis]), offset))
        lt == {i \in I : FLt(16 * ShapeAt(ss, i).center[axis], boundary)}
    IN  FAdd(SideTerm(ss, lt), SideTerm(ss, I \ lt))

\* best_cost: the minimum over the 3 axes x 15 interior bin boundaries.
BestCost(ss, I, mn, mx) ==
    MinOf({BoundaryCost(ss, I, mn, mx, offset, axis) : offset \in 1 .. 15, axis \in Axes})

\* 15 + best_cost >= 2 * shape_count, for node i.
LeafIsCheaper(ns, ss, i) ==
    LET node == NodeAt(ns, i)
        I == NodeShapes(ns, i)
        best == BestCost(ss, I, node.min, node.max)
        area == SurfaceArea(node.min, node.max)
    IN  IF is_finite(best) /\ is_finite(area)
        THEN 15 * area + best >= 2 * Cardinality(I) * area
        ELSE FGe(FAdd(15, best), 2 * Cardinality(I))

\* C10: in the tree BvhNode::new returns, a node is a Leaf exactly when
\* 15 + best_cost >= 2 * shape_count for the shapes below it, and every
\* other node is a Branch with two children.
C10_LeafExactlyWhenCheaper ==
    (bphase = "built" /\ qphase = "idle") =>
        \A i \in NodeIndices :
            /\ NodeAt(nodes, i).kind = "Leaf" <=> LeafIsCheaper(nodes, shapes, i)
            /\ NodeAt(nodes, i).kind # "Leaf" =>
                  /\ NodeAt(nodes, i).kind = "Branch"
                  /\ Len(NodeAt(nodes, i).children) = 2
                  /\ \A c \in 1 .. 2 : NodeAt(nodes, i).children[c] \in NodeIndices \ {i}

\* A built tree in which both decisions were taken: a Branch, and a Leaf of
\* several shapes.
C10_Witness ==
    /\ bphase = "built"
    /\ qphase = "idle"
    /\ BranchNodes # {}
    /\ \E i \in LeafNodes :
          NodeAt(nodes, i).shapes_range[2] - NodeAt(nodes, i).shapes_range[1] >= 4

(***************************************************************************)
(* Properties of Scene::render.                                            *)
(***************************************************************************)
Abs(x) == IF x < 0 THEN -x ELSE x

\* The global pixel indices of chunk k: k * chunk_size + i, i < chunk length.
ChunkCells(k) ==
    { k * locals.chunk_size + i :
        i \in 0 .. (ChunkLength(NumPixels, locals.chunk_size, k) - 1) }

WorkerChunk(w) == ChunkIndex(workers[w].work_index, locals.chunks_len)
WorkerItem(w) ==
    <<WorkerChunk(w), SampleIteration(workers[w].work_index, locals.chunks_len)>>
WorkItems == (0 .. (locals.chunks_len - 1)) \X (0 .. (locals.num_sample_chunks - 1))
TimesProcessed(item) == IF item \in DOMAIN processed THEN processed[item] ELSE 0

\* C3: a worker in the pixel loop holds the mutex of its chunk and writes a
\* cell of that chunk; two workers in the pixel loop are on chunks that
\* share no cell; the chunks are pairwise disjoint.
C3_NoConcurrentPixelWrites ==
    rphase = "running" =>
        /\ \A w \in DOMAIN workers :
              workers[w].pc = "pixels" =>
                  /\ chunks[WorkerChunk(w)] = w
                  /\ workers[w].i < ChunkLength(NumPixels, locals.chunk_size, WorkerChunk(w))
                        => WorkerChunk(w) * locals.chunk_size + workers[w].i
                              \in ChunkCells(WorkerChunk(w))
        /\ \A w1, w2 \in DOMAIN workers :
              (w1 # w2 /\ workers[w1].pc = "pixels" /\ workers[w2].pc = "pixels") =>
                  ChunkCells(WorkerChunk(w1)) \cap ChunkCells(WorkerChunk(w2)) = {}
        /\ \A k1, k2 \in DOMAIN chunks :
              k1 < k2 => ChunkCells(k1) \cap ChunkCells(k2) = {}

\* One worker is in the pixel loop of a chunk while another waits for the
\* mutex of the same chunk.
C3_Witness ==
    /\ rphase = "running"
    /\ \E w1, w2 \in DOMAIN workers :
          /\ w1 # w2
          /\ workers[w1].pc = "pixels"
          /\ workers[w2].pc = "lock"
          /\ WorkerChunk(w1) = WorkerChunk(w2)

\* C4: render does not panic, and the chunks it builds cover 0..W*H with
\* every index in exactly one chunk.
C4_ChunksCoverWithoutPanic ==
    /\ rphase # "panicked"
    /\ rphase \in {"running", "done"} =>
          /\ \A k \in DOMAIN chunks : ChunkCells(k) \subseteq 0 .. (NumPixels - 1)
          /\ \A x \in 0 .. (NumPixels - 1) :
                Cardinality({k \in DOMAIN chunks : x \in ChunkCells(k)}) = 1

\* C5: only work items (chunk_index < chunks.len(), sample_iteration <
\* num_sample_chunks) are worked on; no work item was finished twice, none
\* under way was finished before or is under way at another worker; and
\* when render returns each was finished exactly once.
C5_EachWorkItemOnce ==
    rphase \in {"running", "done"} =>
        /\ DOMAIN processed \subseteq WorkItems
        /\ \A w \in DOMAIN workers :
              workers[w].pc \in {"lock", "pixels"} => WorkerItem(w) \in WorkItems
        /\ \A item \in DOMAIN processed : processed[item] = 1
        /\ \A w \in DOMAIN workers :
              workers[w].pc \in {"lock", "pixels"} =>
                  /\ TimesProcessed(WorkerItem(w)) = 0
                  /\ \A w2 \in DOMAIN workers \ {w} :
                        workers[w2].pc \in {"lock", "pixels"} =>
                            WorkerItem(w2) # WorkerItem(w)
        /\ rphase = "done" => \A item \in WorkItems : TimesProcessed(item) = 1

\* render has returned after two workers shared two sweeps over the chunks.
C5_Witness ==
    /\ rphase = "done"
    /\ num_threads = 2
    /\ locals.num_sample_chunks = 2
    /\ locals.chunks_len >= 4

\* The batch value of pixel offset_i in sweep s, as a byte.
BatchByte(offset_i, s) ==
    GammaByte(BatchSum(seed, offset_i, s * locals.sample_chunk_size,
                       locals.sample_chunk_size),
              locals.sample_chunk_size)

RECURSIVE SumOfBatchBytes(_, _)
SumOfBatchBytes(offset_i, sweeps) ==
    IF sweeps = {} THEN 0
    ELSE LET s == CHOOSE s \in sweeps : TRUE
         IN  BatchByte(offset_i, s) + SumOfBatchBytes(offset_i, sweeps \ {s})

\* C6: in incremental mode, whenever n work items of a chunk have been
\* processed (and no fold of the chunk is under way), every pixel of the
\* chunk holds the mean of the n batch values folded into it, up to the
\* truncation to u8 of each fold (less than (n + 1) in all).
C6_RunningMean ==
    (rphase \in {"running", "done"} /\ scene.incremental # None) =>
        \A k \in DOMAIN chunks :
            chunks[k] = 0 =>
                LET sweeps == {s \in 0 .. (locals.num_sample_chunks - 1) :
                                 TimesProcessed(<<k, s>>) > 0}
                    n == Cardinality(sweeps)
                IN  \A x \in ChunkCells(k) :
                        n > 0 =>
                            Abs(n * image.data[x + 1] - SumOfBatchBytes(x, sweeps))
                                <= n * (n + 1)

\* C7: after an incremental render of N sweeps, every pixel holds the value
\* one sweep over the same S samples stores, up to the truncation to u8 of
\* each fold (at most N in all).
C7_IncrementalEqualsOneSweep ==
    (rphase = "done" /\ scene.incremental # None) =>
        \A x \in 0 .. (NumPixels - 1) :
            Abs(image.data[x + 1]
                  - GammaByte(BatchSum(seed, x, 0, scene.screen.samples_per_pixel),
                              scene.screen.samples_per_pixel))
                <= locals.num_sample_chunks

\* C11: no worker waits at lock() for a chunk that another worker is
\* processing.
C11_NeverBlockedOnPeer ==
    rphase = "running" =>
        \A w \in DOMAIN workers :
            workers[w].pc = "lock" => chunks[WorkerChunk(w)] = 0

\* C12: render runs to completion: eventually the scope has joined, every
\* worker has left its loop and every work item has been processed.
C12_RunsToCompletion ==
    <>(/\ rphase = "done"
       /\ \A w \in DOMAIN workers : workers[w].pc = "exited"
       /\ \A item \in WorkItems : TimesProcessed(item) = 1)

\* C17: a work item (c, s + 1) is in the pixel loop of chunk c only after
\* the work item (c, s) has finished.
C17_FoldsInSweepOrder ==
    (rphase = "running" /\ scene.incremental # None) =>
        \A w \in DOMAIN workers :
            (workers[w].pc = "pixels" /\ WorkerItem(w)[2] > 0) =>
                TimesProcessed(<<WorkerItem(w)[1], WorkerItem(w)[2] - 1>>) > 0

\* C13: config::parse aborts exactly on an `incremental` of 0 or one that
\* does not divide samples_per_pixel; in render the division is clean
\* (num_sample_chunks * sample_chunk_size = samples_per_pixel), and a
\* finished render has drawn samples_per_pixel samples for every pixel.
C13_CleanDivision ==
    LET spp == scene.screen.samples_per_pixel
        bad == /\ scene.incremental # None
               /\ \/ scene.incremental[1] = 0
                  \/ spp % scene.incremental[1] # 0
    IN  /\ rphase = "aborted" => bad
        /\ rphase \notin {"config", "aborted"} => ~bad
        /\ rphase # "divide_by_zero"
        /\ rphase \in {"running", "done"} =>
               locals.num_sample_chunks * locals.sample_chunk_size = spp
        /\ rphase = "done" =>
               \A k \in DOMAIN samples_taken : samples_taken[k] = spp

\* C16: a union call never shrinks the box: the new min is <= the old min
\* and the new max >= the old max on every axis, every point contained
\* before is still contained, and the united point (every point of the
\* united box) is contained.
C16_UnionNeverShrinks ==
    united.kind # "none" =>
        /\ \A a \in Axes : /\ FLe(aabb.min[a], aabb_old.min[a])
                           /\ FGe(aabb.max[a], aabb_old.max[a])
        /\ \A point \in AabbPoints :
               AabbContains(aabb_old, point) => AabbContains(aabb, point)
        /\ united.kind = "point" => AabbContains(aabb, united.value)
        /\ united.kind = "box" =>
               \A point \in AabbPoints :
                   AabbContains(united.value, point) => AabbContains(aabb, point)

\* C14 as stated: all chunks of the raster have the same size.
C14_ChunksAllSameSize ==
    rphase = "running" =>
        \A k1, k2 \in DOMAIN chunks :
            Cardinality(ChunkCells(k1)) = Cardinality(ChunkCells(k2))

\* C14: render panics only when W*H / num_threads^2 is 0; otherwise chunk k
\* is the contiguous run of cells from k * chunk_size on, every chunk but
\* the last has chunk_size = W*H / num_threads^2 cells, and the last one
\* has the remaining 1 .. chunk_size cells, up to cell W*H - 1.
C14_ChunksSameSizeButLast ==
    LET quotient == NumPixels \div (num_threads * num_threads)
        last == Cardinality(DOMAIN chunks) - 1
    IN  /\ rphase = "panicked" => quotient = 0
        /\ rphase = "running" =>
              /\ quotient > 0
              /\ locals.chunk_size = quotient
              /\ DOMAIN chunks = 0 .. last
              /\ last >= 0
              /\ \A k \in DOMAIN chunks :
                    /\ ChunkCells(k) # {}
                    /\ \A x \in ChunkCells(k) : x >= k * quotient /\ x < (k + 1) * quotient
                    /\ \A x, y \in ChunkCells(k) : \A z \in x .. y : z \in ChunkCells(k)
                    /\ k < last => Cardinality(ChunkCells(k)) = quotient
              /\ Cardinality(ChunkCells(last)) \in 1 .. quotient
              /\ NumPixels - 1 \in ChunkCells(last)
              /\ last * quotient \in ChunkCells(last)

\* A raster whose last chunk is shorter than the others.
C14_Witness ==
    /\ rphase = "running"
    /\ Cardinality(DOMAIN chunks) > 1
    /\ Cardinality(ChunkCells(Cardinality(DOMAIN chunks) - 1)) < locals.chunk_size

\* C15: once the node array is built, the box of every node contains the
\* min() and max() extrema of every shape in the leaf ranges of its subtree
\* (with the shapes where the build left them), and the box of each child
\* lies inside the box of its parent.
C15_BoxesContainSubtree ==
    (bphase = "built" /\ qphase = "idle") =>
        /\ \A i \in NodeIndices :
              \A j \in NodeShapes(nodes, i) : \A a \in Axes :
                  /\ NodeAt(nodes, i).min[a] <= ShapeMin(ShapeAt(shapes, j))[a]
                  /\ ShapeMax(ShapeAt(shapes, j))[a] <= NodeAt(nodes, i).max[a]
        /\ \A i \in BranchNodes :
              \A c \in {NodeAt(nodes, i).children[1], NodeAt(nodes, i).children[2]} :
                  \A a \in Axes :
                      /\ NodeAt(nodes, i).min[a] <= NodeAt(nodes, c).min[a]
                      /\ NodeAt(nodes, c).max[a] <= NodeAt(nodes, i).max[a]

\* A built tree with nested branches whose build has moved shapes.
C15_Witness ==
    /\ bphase = "built"
    /\ qphase = "idle"
    /\ shapes # shapes0
    /\ \E i \in BranchNodes : NodeAt(nodes, i).children[1] \in BranchNodes
                              \/ NodeAt(nodes, i).children[2] \in BranchNodes

Siblings(m, n) ==
    \E i \in BranchNodes :
        NodeAt(nodes, i).children = <<m, n>> \/ NodeAt(nodes, i).children = <<n, m>>

C18_SkipsExactlyWhenNotCloser ==
    [][(qphase = "traversing" /\ stack # << >>) =>
          IF closest_hit[1] <= Top(stack)[1]
          THEN /\ inspected' = inspected
               /\ stack' = Pop(stack)
               /\ closest_hit' = closest_hit
          ELSE inspected' = Append(inspected, Top(stack)[2])]_vars

\* An entry about to be skipped after nodes have been inspected and a hit
\* has been found.
C18_Witness ==
    /\ qphase = "traversing"
    /\ stack # << >>
    /\ closest_hit[1] <= Top(stack)[1]
    /\ closest_hit[1] < INFINITY
    /\ Len(inspected) >= 2

\* C20: a visit of a Branch pushes exactly the children whose box the ray
\* hits at an entry distance below the best hit distance, each with that
\* distance, and when it pushes both, the one with the larger distance goes
\* first (below), so that the nearer one is popped first.
C20_FartherChildFirst ==
    [][(/\ qphase = "traversing"
        /\ stack # << >>
        /\ closest_hit[1] > Top(stack)[1]
        /\ NodeAt(nodes, Top(stack)[2]).kind = "Branch") =>
          LET rest == Pop(stack)
              children == NodeAt(nodes, Top(stack)[2]).children
              pushed == SubSeq(stack', Len(rest) + 1, Len(stack'))
              hit(c) == BoxIntersects(NodeAt(nodes, c), ray)
              wanted(c) == hit(c) # None /\ hit(c)[1] < closest_hit[1]
          IN  /\ Len(stack') >= Len(rest)
              /\ SubSeq(stack', 1, Len(rest)) = rest
              /\ \A k \in 1 .. Len(pushed) :
                    /\ pushed[k][2] \in {children[1], children[2]}
                    /\ wanted(pushed[k][2])
                    /\ pushed[k][1] = hit(pushed[k][2])[1]
              /\ \A c \in {children[1], children[2]} :
                    wanted(c) => \E k \in 1 .. Len(pushed) : pushed[k][2] = c
              /\ Len(pushed) <= 2
              /\ Len(pushed) = 2 =>
                    /\ pushed[1][2] # pushed[2][2]
                    /\ pushed[1][1] >= pushed[2][1]]_vars

\* Just after the visit of a Branch when a hit had been found: one child, on
\* top of the stack, was pushed; the box of the other is hit by the ray, but
\* not before the best hit, and it was not pushed.
C20_Witness ==
    /\ qphase = "traversing"
    /\ closest_hit[1] < INFINITY
    /\ inspected # << >>
    /\ stack # << >>
    /\ LET visited == inspected[Len(inspected)]
       IN  /\ visited \in BranchNodes
           /\ \E c, d \in {NodeAt(nodes, visited).children[1],
                           NodeAt(nodes, visited).children[2]} :
                 /\ c # d
                 /\ Top(stack)[2] = c
                 /\ BoxIntersects(NodeAt(nodes, d), ray) # None
                 /\ BoxIntersects(NodeAt(nodes, d), ray)[1] >= closest_hit[1]
                 /\ \A k \in 1 .. Len(stack) : stack[k][2] # d

(***************************************************************************)
(* C22: whenever subdivide applies a split, the split has a finite cost,   *)
(* both sides counted by get_split are non-empty, the two child ranges are *)
(* the first `lt` and the remaining `ge` positions of the node's range,    *)
(* and after the in-place partition the first child range holds exactly    *)
(* the shapes with centroid < split and the second those with              *)
(* centroid >= split.                                                      *)
(***************************************************************************)
SplitApplied ==
    /\ bphase = "subdividing"
    /\ frames # << >>
    /\ Top(frames).pc = "enter"
    /\ Len(frames') = Len(frames)
    /\ Top(frames').pc = "children"

C22_BothChildRangesNonEmpty ==
    [][SplitApplied =>
        \E rng \in {NodeAt(nodes, Top(frames).index).shapes_range} :
        \E best \in {get_split(NodeAt(nodes, Top(frames).index), shapes)} :
        \E lt \in {Len(FilterIx(shapes, RangeSeq(rng), 0, best.axis, best.split))} :
        \E ge \in {Len(FilterIx(shapes, RangeSeq(rng), 1, best.axis, best.split))} :
        \E cr \in {Top(frames').child_ranges} :
            /\ best.cost < INFINITY
            /\ lt > 0
            /\ ge > 0
            /\ cr[1] = <<rng[1], rng[1] + lt>>
            /\ cr[2] = <<rng[1] + lt, rng[2]>>
            /\ cr[1][1] < cr[1][2]
            /\ cr[2][1] < cr[2][2]
            /\ \A i \in RangeSet(cr[1]) :
                  FLt(FMul(bins_per_axis, centroid(ShapeAt(shapes', i))[best.axis + 1]),
                      best.split)
            /\ \A i \in RangeSet(cr[2]) :
                  FGe(FMul(bins_per_axis, centroid(ShapeAt(shapes', i))[best.axis + 1]),
                      best.split)]_vars

\* A split has been applied whose partition had to move shapes, and some
\* candidate of the same node left one side empty.
C22_Witness ==
    /\ bphase = "subdividing"
    /\ frames # << >>
    /\ Top(frames).pc = "children"
    /\ Top(frames).children = << >>
    /\ shapes # shapes0
    /\ \E k \in 1 .. NumCandidates :
          CandidateCost(NodeAt(nodes, Top(frames).index), shapes, k).cost = INFINITY

(***************************************************************************)
(* C23: the build only reorders the shape array: at every point of the     *)
(* build and after it the array has the length it was given and holds      *)
(* every shape as many times as the given array did.                       *)
(***************************************************************************)
Occurrences(ss, x) == Cardinality({i \in 1 .. Len(ss) : ss[i] = x})

C23_BuildOnlyReorders ==
    /\ Len(shapes) = Len(shapes0)
    /\ \A i \in 1 .. Len(shapes0) :
          Occurrences(shapes, shapes0[i]) = Occurrences(shapes0, shapes0[i])
    /\ \A i \in 1 .. Len(shapes) :
          Occurrences(shapes, shapes[i]) = Occurrences(shapes0, shapes[i])

\* A finished build that moved shapes.
C23_Witness ==
    /\ bphase = "built"
    /\ shapes # shapes0
    /\ Len(nodes) > 1

(***************************************************************************)
(* C24: the node array returned by BvhNode::new is a tree rooted at node   *)
(* 0: the children of every Branch are in bounds and have indices greater  *)
(* than the Branch's, no Branch has node 0 as a child, every other node is *)
(* the child of exactly one Branch (in exactly one of its two slots), and  *)
(* every node is reached from node 0 by following children.                *)
(***************************************************************************)
ChildSlots == {<<b, k>> : b \in BranchNodes, k \in 1 .. 2}
SlotChild(slot) == NodeAt(nodes, slot[1]).children[slot[2]]

RECURSIVE ReachableFrom(_, _)
ReachableFrom(i, fuel) ==
    IF fuel = 0 \/ NodeAt(nodes, i).kind # "Branch" THEN {i}
    ELSE {i} \cup ReachableFrom(NodeAt(nodes, i).children[1], fuel - 1)
             \cup ReachableFrom(NodeAt(nodes, i).children[2], fuel - 1)

C24_NodesFormATree ==
    bphase = "built" =>
        /\ Len(nodes) >= 1
        /\ \A slot \in ChildSlots :
              /\ SlotChild(slot) \in NodeIndices
              /\ SlotChild(slot) > slot[1]
        /\ \A n \in NodeIndices :
              Cardinality({slot \in ChildSlots : SlotChild(slot) = n})
                  = IF n = 0 THEN 0 ELSE 1
        /\ ReachableFrom(0, Len(nodes)) = NodeIndices

\* A returned array in which a Branch is itself the child of a Branch.
C24_Witness ==
    /\ bphase = "built"
    /\ \E slot \in ChildSlots : SlotChild(slot) \in BranchNodes

(***************************************************************************)
(* C26: BvhNode::new returns: until it has, one of its steps can be taken, *)
(* and every step lowers a natural number (the steps that may still be     *)
(* needed).  Every applied split gives two child ranges with fewer shapes  *)
(* than the range it splits, and for an array of n >= 1 shapes there are   *)
(* never more than n calls of subdivide on the call stack nor more than    *)
(* 2n - 1 nodes in the node array.                                         *)
(***************************************************************************)
RangeLen(rng) == rng[2] - rng[1]

C26_SplitsShrink ==
    [][SplitApplied =>
        \A k \in 1 .. 2 :
           RangeLen(Top(frames').child_ranges[k])
               < RangeLen(NodeAt(nodes, Top(frames).index).shapes_range)]_vars

C26_DepthAndSizeBounded ==
    (bphase # "new" /\ Len(shapes0) >= 1) =>
        /\ Len(frames) <= Len(shapes0)
        /\ Len(nodes) <= 2 * Len(shapes0) - 1

\* An upper bound on the steps a call of subdivide on k shapes still takes:
\* the split decision, and if it splits k into a + b, two pushes, the two
\* calls and the write of the Branch.
WorkOf(k) == IF k = 0 THEN 1 ELSE 5 * k - 4

\* The steps the frame may still take itself or through calls it has not
\* made yet.
FrameWork(f) ==
    IF f.pc = "enter" THEN WorkOf(RangeLen(NodeAt(nodes, f.index).shapes_range))
    ELSE IF Len(f.children) = 0
         THEN WorkOf(RangeLen(f.child_ranges[1])) + WorkOf(RangeLen(f.child_ranges[2])) + 3
    ELSE IF Len(f.children) = 1 THEN WorkOf(RangeLen(f.child_ranges[2])) + 2
    ELSE 1

RECURSIVE SumFrameWork(_)
SumFrameWork(fs) == IF fs = << >> THEN 0 ELSE FrameWork(Top(fs)) + SumFrameWork(Pop(fs))

RemainingWork ==
    IF bphase = "new" THEN WorkOf(Len(shapes)) + 1
    ELSE IF bphase = "built" THEN 0
    ELSE SumFrameWork(frames)

\* Until the build has returned one of its steps can be taken.
BuildCanStep ==
    \/ bphase = "new"
    \/ /\ bphase = "subdividing"
       /\ frames # << >>
       /\ Top(frames).pc \in {"enter", "children"}
       /\ Top(frames).pc = "children" => Len(Top(frames).children) \in 0 .. 2

C26_BuildTerminates ==
    /\ [](bphase # "built" => BuildCanStep)
    /\ [][bphase # "built" => RemainingWork' < RemainingWork]_vars
    /\ [](RemainingWork >= 0)
    /\ []C26_DepthAndSizeBounded
    /\ C26_SplitsShrink

\* A build has returned that split twice, one split inside the other.
C26_Witness ==
    /\ bphase = "built"
    /\ Len(nodes) = 5
    /\ frames = << >>

(***************************************************************************)
(* C29: a split applied by subdivide to a node with shape range [s, e)     *)
(* leaves the array's length and every shape at an index outside [s, e)    *)
(* as they were, so every node that is not the node itself or one of the   *)
(* callers on the call stack keeps a range disjoint from [s, e) and a box  *)
(* that is still the smallest box of the shapes in its range.              *)
(***************************************************************************)
OnCallStack == {frames[k].index : k \in 1 .. Len(frames)}
SettledLeaves == {n \in LeafNodes : n \notin OnCallStack}

C29_OrderChangesOnlyInsideRange ==
    [][SplitApplied =>
        \E rng \in {NodeAt(nodes, Top(frames).index).shapes_range} :
            /\ Len(shapes') = Len(shapes)
            /\ \A i \in 0 .. (Len(shapes) - 1) :
                  i \notin RangeSet(rng) => ShapeAt(shapes', i) = ShapeAt(shapes, i)
            /\ \A n \in SettledLeaves :
                  /\ RangeSet(NodeAt(nodes, n).shapes_range) \cap RangeSet(rng) = {}
                  /\ smallest_bounds(shapes', RangeSeq(NodeAt(nodes, n).shapes_range))
                        = <<NodeAt(nodes, n).min, NodeAt(nodes, n).max>>]_vars

\* A split has just been applied to a node whose sibling subtree is already
\* built, in an array the build has reordered.
C29_Witness ==
    /\ bphase = "subdividing"
    /\ Len(frames) >= 2
    /\ Top(frames).pc = "children"
    /\ Top(frames).children = << >>
    /\ SettledLeaves # {}
    /\ shapes # shapes0

(***************************************************************************)
(* C27: within one call of closest_shape no node index is pushed twice,    *)
(* every pushed index is one of the node array, the loop has popped at     *)
(* most as many entries as there are nodes, every round of the loop is one *)
(* more pop, no access is out of bounds, and the call returns with an      *)
(* empty stack.                                                            *)
(***************************************************************************)
PopsMade == Len(pushed_nodes) - Len(stack)

C27_PushedAtMostOnce ==
    /\ qphase # "panicked"
    /\ qphase \in {"traversing", "done"} =>
          /\ \A i, j \in 1 .. Len(pushed_nodes) :
                i # j => pushed_nodes[i] # pushed_nodes[j]
          /\ \A i \in 1 .. Len(pushed_nodes) : pushed_nodes[i] \in NodeIndices
          /\ PopsMade >= 0
          /\ PopsMade <= Len(nodes)
          /\ qphase = "traversing" /\ stack # << >> => Top(stack)[2] \in NodeIndices
          /\ qphase = "done" => stack = << >>

C27_TraversalTerminates ==
    /\ []C27_PushedAtMostOnce
    /\ [][(qphase = "traversing" /\ stack # << >>) =>
             /\ PopsMade' = PopsMade + 1
             /\ Len(nodes') = Len(nodes)]_vars

\* A returned call that pushed, and popped, every node of a tree with two
\* Branches.
C27_Witness ==
    /\ qphase = "done"
    /\ Len(nodes) = 5
    /\ Len(pushed_nodes) = 5
    /\ stack = << >>

(***************************************************************************)
(* C21: whatever the scratch stack held when closest_shape was called, the *)
(* call makes no out-of-bounds access, returns with the stack empty, and   *)
(* returns what the loop computes from a stack holding the root alone,     *)
(* which is a function of the ray, the shapes and the nodes.               *)
(***************************************************************************)
RECURSIVE LoopFrom(_, _, _, _, _)
LoopFrom(st, best, r, ns, ss) ==
    IF st = << >> THEN best
    ELSE IF Prune(best[1], Top(st)[1]) THEN LoopFrom(Pop(st), best, r, ns, ss)
    ELSE IF NodeAt(ns, Top(st)[2]).kind = "Branch"
    THEN LoopFrom(Pop(st) \o BranchPushes(NodeAt(ns, Top(st)[2]).children, r, ns, best[1]),
                  best, r, ns, ss)
    ELSE LoopFrom(Pop(st), LeafScan(RangeSeq(NodeAt(ns, Top(st)[2]).shapes_range), r, ss, best),
                  r, ns, ss)

HitOf(best, r, ss) ==
    IF is_finite(best[1])
    THEN Some([time |-> best[1],
               hit_point |-> VAdd(r.origin, VScale(r.direction, best[1])),
               material_index |-> ShapeAt(ss, best[2]).material_index])
    ELSE None

C21_ScratchContentsIgnored ==
    /\ qphase # "panicked"
    /\ qphase = "done" =>
          /\ stack = << >>
          /\ result = HitOf(LoopFrom(<< <<0, 0>> >>, <<INFINITY, U32_MAX>>, ray, nodes, shapes),
                            ray, shapes)
    /\ (qphase = "traversing" /\ inspected = << >> /\ closest_hit[1] = INFINITY
            /\ Len(pushed_nodes) = 1 /\ PopsMade = 0) =>
          stack = << <<0, 0>> >>

\* A call that was made with entries on the scratch stack, one of them the
\* index of no node of this BVH, has returned a hit.
C21_Witness ==
    /\ qphase = "done"
    /\ result # None
    /\ \E k \in 1 .. Len(stack_before) : stack_before[k][2] \notin NodeIndices

(***************************************************************************)
(* C28: while the workers of Scene::render run, a worker holds at most one *)
(* chunk mutex, holds it only between its lock() and the end of the same   *)
(* loop body (so never at a fetch_add, while waiting in lock(), or after   *)
(* it has left the loop), the mutex it holds is the one of the chunk of    *)
(* its work item, and unless every worker has left its loop some worker    *)
(* can take a step: no state is a deadlock.                                *)
(***************************************************************************)
HeldBy(w) == {k \in DOMAIN chunks : chunks[k] = w}

CanStep(w) ==
    \/ workers[w].pc = "loop"
    \/ workers[w].pc = "pixels"
    \/ /\ workers[w].pc = "lock"
       /\ CanLock(chunks[ChunkIndex(workers[w].work_index, locals.chunks_len)])

C28_NoDeadlock ==
    rphase = "running" =>
        /\ \A w \in DOMAIN workers :
              /\ Cardinality(HeldBy(w)) <= 1
              /\ workers[w].pc = "pixels" =>
                    HeldBy(w) = {ChunkIndex(workers[w].work_index, locals.chunks_len)}
              /\ workers[w].pc # "pixels" => HeldBy(w) = {}
        /\ \A k \in DOMAIN chunks : chunks[k] \in {0} \cup DOMAIN workers
        /\ (\E w \in DOMAIN workers : workers[w].pc # "exited") =>
              \E w \in DOMAIN workers : CanStep(w)

\* A worker waits in lock() for a mutex that a peer holds, and no other
\* worker is left that could take a step but the holder.
C28_Witness ==
    /\ rphase = "running"
    /\ \E w, v \in DOMAIN workers :
          /\ w # v
          /\ workers[w].pc = "lock"
          /\ chunks[ChunkIndex(workers[w].work_index, locals.chunks_len)] = v
          /\ workers[v].pc = "pixels"
          /\ \A u \in DOMAIN workers : CanStep(u) => u = v

(***************************************************************************)
(* C30: in incremental mode, when Scene::render has returned, the pixel    *)
(* bytes of the output file (the bytes after the header) are the final     *)
(* contents of the image buffer, chunk by chunk.                           *)
(***************************************************************************)
C30_FileHoldsFinalBuffer ==
    (rphase = "done" /\ scene.incremental # None) => image.file = image.data

\* The same for renders that draw samples.
C30_FileHoldsFinalBufferWhenSampled ==
    (rphase = "done" /\ scene.incremental # None /\ scene.screen.samples_per_pixel > 0) =>
        image.file = image.data

\* While workers run, what the file holds of a chunk that no worker has
\* locked is what the buffer holds of it, once the chunk was written.
C30_WritesUnderTheMutex ==
    (rphase = "running" /\ scene.incremental # None) =>
        \A k \in DOMAIN chunks :
           (chunks[k] = 0 /\ \E s \in 0 .. MaxSamples : <<k, s>> \in DOMAIN processed) =>
              \A i \in 1 .. ChunkLength(NumPixels, locals.chunk_size, k) :
                 /\ k * locals.chunk_size + i <= Len(image.file)
                 /\ image.file[k * locals.chunk_size + i]
                       = image.data[k * locals.chunk_size + i]

(***************************************************************************)
(* C25: ray_color makes at most max_bounces nearest-hit rounds; every      *)
(* round but the last one made ended in a scattered ray, and a round that  *)
(* ends in a miss, Absorbed or Light is the last; with max_bounces = 0 no  *)
(* round is made and black is returned; and when the last round ended in   *)
(* Absorbed, black is returned whatever had been accumulated.              *)
(***************************************************************************)
Stopping == {"Miss", "Absorbed", "Light"}

C25_BouncesBounded ==
    /\ cphase # "idle" =>
          /\ Len(outcomes) = bounce
          /\ bounce <= max_bounces
          /\ \A k \in 1 .. (Len(outcomes) - 1) : outcomes[k] = "Scattered"
          /\ (outcomes # << >> /\ outcomes[Len(outcomes)] \in Stopping) =>
                cphase \in {"broke", "returned"}
          /\ cphase = "broke" => outcomes # << >> /\ outcomes[Len(outcomes)] \in Stopping
    /\ cphase = "returned" =>
          /\ \/ outcomes # << >> /\ outcomes[Len(outcomes)] \in Stopping
             \/ Len(outcomes) = max_bounces
          /\ max_bounces = 0 => outcomes = << >> /\ color[1] = 0
          /\ (outcomes # << >> /\ outcomes[Len(outcomes)] = "Absorbed") => color[1] = 0

\* A ray was scattered with attenuation, so that a colour other than white
\* had been accumulated, then absorbed, and ray_color has returned.
C25_Witness ==
    /\ cphase = "returned"
    /\ Len(outcomes) >= 2
    /\ outcomes[Len(outcomes)] = "Absorbed"
    /\ current_color = Some(Black)
    /\ max_bounces > Len(outcomes)

=============================================================================
